---- MODULE Spec2Model ----
(***************************************************************************)
(* A model of py_rename.py: the RenameIt class (the transformations        *)
(* prefix_it, postfix_it, lower_it, replace_space, camel_case, rename, and *)
(* the generic _rename), the recursive bulk_rename walk, and the script    *)
(* body that dispatches on the target and then runs the operations.        *)
(*                                                                         *)
(* A string is a sequence of one-character strings, a path is a string     *)
(* with "/" as separator, relative to the working directory.               *)
(***************************************************************************)
EXTENDS Integers, Sequences, FiniteSets, TLC

(***************************************************************************)
(* Characters and str methods                                              *)
(***************************************************************************)
LowerLetters == <<"a","b","c","d","e","f","g","h","i","j","k","l","m",
                  "n","o","p","q","r","s","t","u","v","w","x","y","z">>
UpperLetters == <<"A","B","C","D","E","F","G","H","I","J","K","L","M",
                  "N","O","P","Q","R","S","T","U","V","W","X","Y","Z">>
Digits == {"0","1","2","3","4","5","6","7","8","9"}

IsLower(c) == \E i \in 1..26 : LowerLetters[i] = c
IsUpper(c) == \E i \in 1..26 : UpperLetters[i] = c
IsCased(c) == IsLower(c) \/ IsUpper(c)
\* re's \w on the modelled characters: letters, digits and the underscore
IsWordChar(c) == IsCased(c) \/ c \in Digits \/ c = "_"

ToLower(c) == IF IsUpper(c)
              THEN LowerLetters[CHOOSE i \in 1..26 : UpperLetters[i] = c]
              ELSE c
ToUpper(c) == IF IsLower(c)
              THEN UpperLetters[CHOOSE i \in 1..26 : LowerLetters[i] = c]
              ELSE c

\* str.lower()
StrLower(s) == [i \in 1..Len(s) |-> ToLower(s[i])]

\* str.replace(old, new) for one-character old and new
StrReplace(s, old, new) == [i \in 1..Len(s) |-> IF s[i] = old THEN new ELSE s[i]]

\* str.title(): a cased character is upper-cased when the character before
\* it is not cased (or there is none), and lower-cased when it is
StrTitle(s) == [i \in 1..Len(s) |->
                  IF i > 1 /\ IsCased(s[i-1]) THEN ToLower(s[i]) ELSE ToUpper(s[i])]

\* re.findall('[\w]+', s): the maximal runs of word characters, left to right.
\* acc is the list of finished words, run the run being read.
RECURSIVE FindAllFrom(_, _, _, _)
FindAllFrom(s, i, acc, run) ==
    IF i > Len(s)
    THEN IF run = <<>> THEN acc ELSE Append(acc, run)
    ELSE IF IsWordChar(s[i])
         THEN FindAllFrom(s, i + 1, acc, Append(run, s[i]))
         ELSE FindAllFrom(s, i + 1, IF run = <<>> THEN acc ELSE Append(acc, run), <<>>)
FindAllWords(s) == FindAllFrom(s, 1, <<>>, <<>>)

\* ''.join(words)
RECURSIVE StrJoin(_)
StrJoin(words) == IF words = <<>> THEN <<>> ELSE Head(words) \o StrJoin(Tail(words))

(***************************************************************************)
(* os.path                                                                 *)
(***************************************************************************)
\* index of the last "/" of p, 0 when there is none
LastSep(p) == IF \E i \in 1..Len(p) : p[i] = "/"
              THEN CHOOSE i \in 1..Len(p) : p[i] = "/" /\ \A j \in (i+1)..Len(p) : p[j] # "/"
              ELSE 0

\* os.path.basename, os.path.dirname (dirname of "d/x" is "d", of "x" is "")
BaseName(p) == SubSeq(p, LastSep(p) + 1, Len(p))
DirName(p) == IF LastSep(p) = 0 THEN <<>> ELSE SubSeq(p, 1, LastSep(p) - 1)

\* os.path.join(root, name)
PathJoin(root, name) == IF root = <<>> \/ root[Len(root)] = "/"
                        THEN root \o name
                        ELSE root \o <<"/">> \o name

\* os.path.splitext: the extension starts at the last "." of the last path
\* component, unless only "." characters precede it in that component
SplitExt(p) ==
    LET sep == LastSep(p)
        dots == {i \in (sep+1)..Len(p) : p[i] = "."}
    IN  IF dots = {} THEN <<p, <<>>>>
        ELSE LET d == CHOOSE i \in dots : \A j \in dots : j <= i
             IN  IF \E j \in (sep+1)..(d-1) : p[j] # "."
                 THEN <<SubSeq(p, 1, d - 1), SubSeq(p, d, Len(p))>>
                 ELSE <<p, <<>>>>

(***************************************************************************)
(* The filesystem: the regular files and the directories that exist, by    *)
(* path.  The working directory is the empty path and always exists.       *)
(***************************************************************************)
HasPrefix(p, q) == Len(q) <= Len(p) /\ SubSeq(p, 1, Len(q)) = q
Under(p, dir) == HasPrefix(p, dir \o <<"/">>)

\* os.path.isdir
IsDir(f, p) == p \in f.dirs

\* whether os.rename(src, dst) can succeed (POSIX rename(2)): the source
\* exists, the destination names an entry of an existing directory, a file
\* does not replace a directory, and a directory replaces only itself or
\* an empty directory outside its own subtree
CanRename(f, src, dst) ==
    /\ dst # <<>>
    /\ BaseName(dst) \notin {<<>>, <<".">>, <<".", ".">>}
    /\ (DirName(dst) = <<>> \/ DirName(dst) \in f.dirs)
    /\ \/ src \in f.files /\ dst \notin f.dirs
       \/ /\ src \in f.dirs
          /\ dst \notin f.files
          /\ ~Under(dst, src)
          /\ (dst \in f.dirs /\ dst # src)
                => \A p \in f.files \cup f.dirs : ~Under(p, dst)

\* the filesystem after a successful os.rename(src, dst)
Moved(p, src, dst) == IF p = src THEN dst
                      ELSE IF Under(p, src)
                           THEN dst \o SubSeq(p, Len(src) + 1, Len(p))
                           ELSE p
OsRename(f, src, dst) ==
    IF src = dst THEN f
    ELSE IF src \in f.files
         THEN [files |-> (f.files \ {src}) \cup {dst}, dirs |-> f.dirs]
         ELSE [files |-> {Moved(p, src, dst) : p \in f.files},
               dirs  |-> {Moved(p, src, dst) : p \in f.dirs \ {dst}}]

\* what a path names: a regular file, a directory, or nothing
EntryKind(f, p) == IF p \in f.files THEN "file"
                   ELSE IF p \in f.dirs THEN "dir" ELSE "none"

\* one directory's listing, as os.walk's scandir gives it
FilesIn(f, dir) == {BaseName(p) : p \in {q \in f.files : DirName(q) = dir}}
DirsIn(f, dir)  == {BaseName(p) : p \in {q \in f.dirs : DirName(q) = dir}}

\* the orders in which a listing can come back
Orders(set) == {o \in [1..Cardinality(set) -> set] :
                   \A i, j \in 1..Cardinality(set) : o[i] = o[j] => i = j}

(***************************************************************************)
(* The transformations: the new base name each method hands to _rename     *)
(***************************************************************************)
PrefixName(old_name, prefix_str)   == prefix_str \o old_name
PostfixName(old_name, postfix_str) == old_name \o postfix_str
LowerName(old_name)                == StrLower(old_name)
ReplaceSpaceName(old_name, fill_char) == StrReplace(old_name, " ", fill_char)
CamelCaseName(fname_) ==
    LET old_name == StrReplace(fname_, "_", " ")
        modified_name == FindAllWords(StrLower(old_name))
    IN  StrJoin([i \in 1..Len(modified_name) |-> StrTitle(modified_name[i])])
RenameName(old_name, rename_string) == rename_string

(***************************************************************************)
(* The runs that are explored                                              *)
(***************************************************************************)
\* how many renames the environment may refuse in one run (permission
\* denied, destination exists on Windows, ...) beyond those that must fail
MaxFaults == 1

\* the filesystem before the run: files "A b.T", "N" and "_.T" in the
\* working directory, the tree d (d/c.T, d/s/t/B_c.T) and the tree e
\* without files
FS0 == [files |-> {<<"A"," ","b",".","T">>,
                   <<"N">>,
                   <<"_",".","T">>,
                   <<"d","/","c",".","T">>,
                   <<"d","/","s","/","t","/","B","_","c",".","T">>},
        dirs  |-> {<<"d">>, <<"d","/","s">>, <<"d","/","s","/","t">>,
                   <<"e">>, <<"e","/","s">>}]

\* the positional argument: three files of the working directory, a file
\* given with a directory part, a file that does not exist, and the two trees
Targets == {<<"A"," ","b",".","T">>, <<"N">>, <<"_",".","T">>,
            <<"d","/","c",".","T">>,
            <<"z",".","T">>, <<"d">>, <<"e">>}

\* the parsed arguments; an option that was not given is the empty string
\* (None and "" are both false at lines 52-56 and 245-249)
ArgSets == [rename : {<<>>, <<"N"," ","w">>},
            prefix : {<<>>, <<"P","_">>},
            postfix : {<<>>, <<".","k">>},
            lower : BOOLEAN, remove_space : BOOLEAN, camel_case : BOOLEAN,
            dryrun : BOOLEAN, silent : BOOLEAN,
            filename : Targets]

VARIABLES
    args,       \* the parsed command line (line 231)
    fs,         \* the filesystem
    full_name,  \* self.full_name
    fname,      \* self.fname
    fext,       \* self.fext
    pc,         \* where the script is: "main", "walk", "bulk", "single", "post", "done"
    opi,        \* which of the six "if args.<op>" statements comes next
    root,       \* os.walk: the directory being listed
    todo,       \* os.walk: the files of root not yet visited
    stack,      \* os.walk: the directories still to list, next first
    out,        \* the lines written to standard output
    cur,        \* the path the tracked name was last split from
    attempts,   \* history: every call of _rename, in order
    faults,     \* how many renames the environment has refused
    dry         \* the tracked state and output of the dry run of the same command line

vars == <<args, fs, full_name, fname, fext, pc, opi, root, todo, stack, out,
          cur, attempts, faults, dry>>

\* the truth value of args.<op> at lines 52-62 and 245-255
Requested(a, k) == CASE k = 1 -> a.rename # <<>>
                     [] k = 2 -> a.prefix # <<>>
                     [] k = 3 -> a.postfix # <<>>
                     [] k = 4 -> a.lower
                     [] k = 5 -> a.remove_space
                     [] k = 6 -> a.camel_case

\* the new_name the k-th method computes from the tracked base name
NewName(a, k, name) == CASE k = 1 -> RenameName(name, a.rename)
                         [] k = 2 -> PrefixName(name, a.prefix)
                         [] k = 3 -> PostfixName(name, a.postfix)
                         [] k = 4 -> LowerName(name)
                         [] k = 5 -> ReplaceSpaceName(name, "_")
                         [] k = 6 -> CamelCaseName(name)

(***************************************************************************)
(* RenameIt                                                                *)
(***************************************************************************)
Line(kind, old, new) == [kind |-> kind, old |-> old, new |-> new]
Banner == Line("banner", <<>>, <<>>)
Notice == Line("notice", <<>>, <<>>)

\* _print: nothing is written when silent
SelfPrint(o, silent, msg) == IF silent THEN o ELSE Append(o, msg)

\* a slip: the extension is normalised to lower case on the way
Destination_LowerExt(new_name, ext) == new_name \o StrLower(ext)

\* the destination _rename hands to os.rename and reports
Destination(new_name, ext) == new_name \o ext

\* a slip: the dry-run test is lost
CallsOsRename_Always(dryrun) == TRUE

\* whether _rename calls os.rename (line 93)
CallsOsRename(dryrun) == ~dryrun

\* a slip: the tracked name is advanced before os.rename is tried, so that
\* a failure leaves the new name behind
Renamed_AdvanceOnFailure(t, ext, new_name, silent, ok) ==
    [full_name |-> IF ok THEN Destination(new_name, ext) ELSE t.full_name,
     fname |-> new_name,
     out |-> SelfPrint(t.out, silent,
                       IF ok THEN Line("renaming", t.full_name, Destination(new_name, ext))
                       ELSE Line("failed", t.full_name, new_name))]

\* the tracked state t = [full_name, fname, out] after _rename(new_name):
\* the try body ran to its end (ok), or os.rename raised OSError
Renamed(t, ext, new_name, silent, ok) ==
    IF ok
    THEN [full_name |-> Destination(new_name, ext),
          fname |-> new_name,
          out |-> SelfPrint(t.out, silent,
                            Line("renaming", t.full_name, Destination(new_name, ext)))]
    ELSE [full_name |-> t.full_name,
          fname |-> t.fname,
          out |-> SelfPrint(t.out, silent, Line("failed", t.full_name, new_name))]

\* __init__: the tracked state of a fresh RenameIt(filename, dryrun, silent)
Constructed(a) ==
    [full_name |-> a.filename,
     fname |-> SplitExt(a.filename)[1],
     fext |-> SplitExt(a.filename)[2],
     out |-> IF a.dryrun THEN <<Banner>> ELSE <<>>]

\* the first two statements of _bulk_rename_single_file(full_path)
BulkSplit(full_path) ==
    [full_name |-> full_path,
     fname |-> SplitExt(BaseName(full_path))[1],
     fext |-> SplitExt(BaseName(full_path))[2]]

Init ==
    /\ args \in ArgSets
    /\ fs = FS0
    /\ full_name = Constructed(args).full_name
    /\ fname = Constructed(args).fname
    /\ fext = Constructed(args).fext
    /\ out = Constructed(args).out
    /\ dry = [full_name |-> full_name, fname |-> fname, out |-> <<Banner>>]
    /\ cur = args.filename
    /\ pc = "main"
    /\ opi = 1
    /\ root = <<>>
    /\ todo = {}
    /\ stack = <<>>
    /\ attempts = <<>>
    /\ faults = 0

\* _rename(new_name), called by the k-th method.  os.rename is called unless
\* this is a dry run; it raises when it cannot succeed or the environment
\* refuses it.  The dry run of the same command line takes the same step
\* from its own tracked name.
_rename(k) ==
    \E refused \in BOOLEAN :
        LET new_name == NewName(args, k, fname)
            dst == Destination(new_name, fext)
            called == CallsOsRename(args.dryrun)
            can == CanRename(fs, full_name, dst)
            ok == ~called \/ (can /\ ~refused)
            t == Renamed([full_name |-> full_name, fname |-> fname, out |-> out],
                         fext, new_name, args.silent, ok)
        IN  /\ refused => (called /\ can /\ faults < MaxFaults)
            /\ faults' = IF refused THEN faults + 1 ELSE faults
            /\ fs' = IF called /\ ok THEN OsRename(fs, full_name, dst) ELSE fs
            /\ full_name' = t.full_name
            /\ fname' = t.fname
            /\ out' = t.out
            /\ dry' = Renamed(dry, fext, NewName(args, k, dry.fname), args.silent, TRUE)
            /\ attempts' = Append(attempts,
                                  [file |-> cur, op |-> k, base |-> fname,
                                   new |-> new_name, src |-> full_name, dst |-> dst,
                                   kind |-> EntryKind(fs, full_name),
                                   called |-> called, ok |-> ok, at |-> pc])
            /\ UNCHANGED <<fext, cur>>

\* where the script goes after the six "if" statements
AfterOps(p) == CASE p = "bulk" -> "walk"
                 [] p = "single" -> "post"
                 [] p = "post" -> "done"

\* the k-th of the statements "if args.<op>: <method>(...)", in
\* _bulk_rename_single_file (lines 52-63) and in the script (lines 245-256)
OpStep(k) ==
    /\ pc \in {"bulk", "single", "post"}
    /\ opi = k
    /\ IF Requested(args, k)
       THEN _rename(k)
       ELSE UNCHANGED <<fs, full_name, fname, fext, out, cur, attempts, faults, dry>>
    /\ IF k < 6
       THEN opi' = k + 1 /\ pc' = pc
       ELSE opi' = 1 /\ pc' = AfterOps(pc)
    /\ UNCHANGED <<args, root, todo, stack>>

\* "if args.rename: rename(args.rename)" and the five statements after it
rename        == opi = 1 /\ OpStep(1)
prefix_it     == opi = 2 /\ OpStep(2)
postfix_it    == opi = 3 /\ OpStep(3)
lower_it      == opi = 4 /\ OpStep(4)
replace_space == opi = 5 /\ OpStep(5)
camel_case    == opi = 6 /\ OpStep(6)

\* _bulk_rename_single_file(full_path) up to its first "if"
EnterBulk(full_path, next_pc) ==
    /\ full_name' = BulkSplit(full_path).full_name
    /\ fname' = BulkSplit(full_path).fname
    /\ fext' = BulkSplit(full_path).fext
    /\ dry' = [dry EXCEPT !.full_name = BulkSplit(full_path).full_name,
                          !.fname = BulkSplit(full_path).fname]
    /\ cur' = full_path
    /\ pc' = next_pc
    /\ opi' = 1

AnyOp(a) == \E k \in 1..6 : Requested(a, k)

\* line 235-237: the target is a directory, bulk_rename(args.filename) starts
MainDir ==
    /\ pc = "main"
    /\ IsDir(fs, args.filename)
    /\ pc' = "walk"
    /\ stack' = <<args.filename>>
    /\ todo' = {}
    /\ UNCHANGED <<args, fs, full_name, fname, fext, opi, root, out, cur,
                   attempts, faults, dry>>

\* lines 238-241: the target is not a directory and an operation was requested
MainFile ==
    /\ pc = "main"
    /\ ~IsDir(fs, args.filename)
    /\ AnyOp(args)
    /\ EnterBulk(args.filename, "single")
    /\ UNCHANGED <<args, fs, root, todo, stack, out, attempts, faults>>

\* lines 242-243: the target is not a directory and nothing was requested
MainNoOps ==
    /\ pc = "main"
    /\ ~IsDir(fs, args.filename)
    /\ ~AnyOp(args)
    /\ out' = Append(out, Notice)
    /\ dry' = [dry EXCEPT !.out = Append(dry.out, Notice)]
    /\ pc' = "post"
    /\ UNCHANGED <<args, fs, full_name, fname, fext, opi, root, todo, stack, cur,
                   attempts, faults>>

\* os.walk lists the next directory: its files are visited first, its
\* subdirectories are listed after them, before the directories already waiting
WalkDir ==
    /\ pc = "walk"
    /\ todo = {}
    /\ stack # <<>>
    /\ LET top == Head(stack)
       IN  /\ root' = top
           /\ todo' = FilesIn(fs, top)
           /\ \E o \in Orders(DirsIn(fs, top)) :
                 stack' = [i \in 1..Len(o) |-> PathJoin(top, o[i])] \o Tail(stack)
    /\ UNCHANGED <<args, fs, full_name, fname, fext, pc, opi, out, cur,
                   attempts, faults, dry>>

\* lines 38-40: the next file of the listing
WalkFile ==
    /\ pc = "walk"
    /\ \E file_name \in todo :
          /\ todo' = todo \ {file_name}
          /\ EnterBulk(PathJoin(root, file_name), "bulk")
    /\ UNCHANGED <<args, fs, root, stack, out, attempts, faults>>

\* the walk is over: bulk_rename returns to line 245
WalkEnd ==
    /\ pc = "walk"
    /\ todo = {}
    /\ stack = <<>>
    /\ pc' = "post"
    /\ UNCHANGED <<args, fs, full_name, fname, fext, opi, root, todo, stack, out,
                   cur, attempts, faults, dry>>

Next ==
    \/ MainDir
    \/ MainFile
    \/ MainNoOps
    \/ WalkDir
    \/ WalkFile
    \/ WalkEnd
    \/ rename
    \/ prefix_it
    \/ postfix_it
    \/ lower_it
    \/ replace_space
    \/ camel_case

Spec == Init /\ [][Next]_vars

(***************************************************************************)
(* camel_case as a function of the base name: the runs start just before   *)
(* camel_case() of a dry run on a file named s, with no other operation    *)
(***************************************************************************)
MaxLen == 4
CamelChars == {"a", "B", "1", "_", " ", "-"}
CamelInputs == UNION {[1..n -> CamelChars] : n \in 0..MaxLen}

InitCamel ==
    /\ \E s \in CamelInputs :
          /\ args = [rename |-> <<>>, prefix |-> <<>>, postfix |-> <<>>,
                     lower |-> FALSE, remove_space |-> FALSE, camel_case |-> TRUE,
                     dryrun |-> TRUE, silent |-> FALSE, filename |-> s]
          /\ full_name = BulkSplit(s).full_name
          /\ fname = BulkSplit(s).fname
          /\ fext = BulkSplit(s).fext
          /\ dry = [full_name |-> s, fname |-> BulkSplit(s).fname, out |-> <<Banner>>]
          /\ cur = s
    /\ fs = FS0
    /\ out = <<Banner>>
    /\ pc = "single"
    /\ opi = 6
    /\ root = <<>>
    /\ todo = {}
    /\ stack = <<>>
    /\ attempts = <<>>
    /\ faults = 0

SpecCamel == InitCamel /\ [][camel_case]_vars

(***************************************************************************)
(* Properties                                                              *)
(***************************************************************************)
Done == pc = "done"
NAttempts == Len(attempts)
DirTarget == IsDir(FS0, args.filename)

\* the requested operations, in the order of the "if" statements
ReqOps == SelectSeq(<<1, 2, 3, 4, 5, 6>>, LAMBDA k : Requested(args, k))

\* the operations attempted on file f, in the order of the attempts
OpsOn(f) == LET on == SelectSeq(attempts, LAMBDA a : a.file = f)
            IN  [i \in 1..Len(on) |-> on[i].op]

\* the base name and the extension a path is split into
Base0(path) == SplitExt(BaseName(path))[1]
Ext0(path)  == SplitExt(BaseName(path))[2]

\* the base name the i-th attempt should start from: the new name of the
\* last successful attempt on the same file, or the file's own base name
NameBefore(i) ==
    LET good == {j \in 1..(i-1) : attempts[j].file = attempts[i].file /\ attempts[j].ok}
    IN  IF good = {} THEN Base0(attempts[i].file)
        ELSE attempts[CHOOSE j \in good : \A h \in good : h <= j].new

Renamings(o) == SelectSeq(o, LAMBDA l : l.kind = "renaming")

\* the twin state is the dry run: in a dry run it is the run itself
DryTwinIsTheDryRun ==
    args.dryrun => dry = [full_name |-> full_name, fname |-> fname, out |-> out]

\* C1: when several operations are requested, the operations attempted on
\* one file come in the order rename, prefix, postfix, lower, de-space,
\* camel-case, none after one that comes later in that order, each starting
\* from the base name the previous step left.
C1_FixedOrder ==
    Len(ReqOps) >= 2 =>
        /\ \A i, j \in 1..NAttempts :
              (i < j /\ attempts[i].file = attempts[j].file)
                  => attempts[i].op < attempts[j].op
        /\ \A i \in 1..NAttempts : attempts[i].base = NameBefore(i)

\* C2 (as stated): the extension of every rename destination, and of the
\* tracked name, is the extension of the original file name.
C2_SameExtension ==
    /\ \A i \in 1..NAttempts :
          SplitExt(attempts[i].dst)[2] = Ext0(attempts[i].file)
    /\ NAttempts > 0 => SplitExt(fname \o fext)[2] = Ext0(cur)

HasNonDot(name) == \E i \in 1..Len(name) : name[i] # "."

\* C2 (amended): the extension split from the original file name is never
\* altered and every destination, like the tracked name after a success, is
\* the new base name followed by exactly that extension; the destination's
\* own extension is the original one whenever the original extension is not
\* empty and the new base name's last component has a character other
\* than ".".
C2_ExtensionAppended ==
    /\ fext = Ext0(cur)
    /\ full_name \in {cur, fname \o fext}
    /\ \A i \in 1..NAttempts :
          LET a == attempts[i]
          IN  /\ a.dst = a.new \o Ext0(a.file)
              /\ (Ext0(a.file) # <<>> /\ HasNonDot(BaseName(a.new)))
                    => SplitExt(a.dst)[2] = Ext0(a.file)

\* C2's case: a run is over in which a file with the extension ".T" was
\* renamed on the filesystem to a different base name
C2_Witness ==
    /\ Done
    /\ \E i \in 1..NAttempts :
          /\ attempts[i].called /\ attempts[i].ok
          /\ Ext0(attempts[i].file) = <<".", "T">>
          /\ attempts[i].new # attempts[i].base
          /\ SplitExt(attempts[i].dst)[2] = <<".", "T">>

\* what a failed _rename step does, with the output it is said to leave
FailedStep == NAttempts' = NAttempts + 1 /\ ~attempts'[NAttempts'].ok
FailedLine == Line("failed", full_name, attempts'[NAttempts'].new)
NextStepFollows == IF opi < 6 THEN pc' = pc /\ opi' = opi + 1
                   ELSE pc' = AfterOps(pc) /\ opi' = 1

\* every operation requested after a failed one was attempted in the same pass
RestAttempted ==
    Done => \A i \in 1..NAttempts :
               ~attempts[i].ok =>
                   \A k \in (attempts[i].op + 1)..6 :
                       Requested(args, k) =>
                           \E j \in (i+1)..NAttempts :
                               /\ attempts[j].op = k
                               /\ attempts[j].file = attempts[i].file
                               /\ attempts[j].at = attempts[i].at

StartsFromLastGood == \A i \in 1..NAttempts : attempts[i].base = NameBefore(i)

\* C3 (as stated): a failed rename leaves the tracked base name and path
\* unchanged, the failure is reported, the remaining steps are attempted and
\* the next step starts from the name of the last successful step.
C3_FailureReported ==
    /\ [][FailedStep => /\ fname' = fname /\ full_name' = full_name
                        /\ out' = Append(out, FailedLine)
                        /\ NextStepFollows]_vars
    /\ [](RestAttempted /\ StartsFromLastGood)

\* C3 (amended): a failed rename leaves the tracked base name and path (and
\* the filesystem) unchanged, the failure is reported unless output is
\* silenced (-s), the remaining steps are attempted and every step starts
\* from the name of the last successful step.
C3_FailureKeepsName ==
    /\ [][FailedStep => /\ fname' = fname /\ full_name' = full_name /\ fs' = fs
                        /\ out' = (IF args.silent THEN out ELSE Append(out, FailedLine))
                        /\ NextStepFollows]_vars
    /\ [](RestAttempted /\ StartsFromLastGood)

\* C3's case: a step succeeded, the next one failed and was reported, and
\* the step after it ran in the same pass from the name of the first
C3_Witness ==
    /\ ~args.silent
    /\ \E i \in 2..(NAttempts - 1) :
          /\ attempts[i-1].ok /\ ~attempts[i].ok /\ attempts[i+1].ok
          /\ attempts[i-1].file = attempts[i].file /\ attempts[i+1].file = attempts[i].file
          /\ attempts[i-1].at = attempts[i].at /\ attempts[i+1].at = attempts[i].at
          /\ attempts[i].base = attempts[i-1].new
          /\ attempts[i].new # attempts[i].base
          /\ attempts[i+1].base = attempts[i-1].new
          /\ \E n \in 1..Len(out) :
                out[n] = Line("failed", attempts[i].src, attempts[i].new)

\* C4: in a dry run no filesystem rename is performed, every entry of the
\* filesystem keeps its name and its existence, and the tracked name still
\* advances: every step succeeds in memory and the next one starts from its
\* new name.
C4_DryRunLeavesFilesystem ==
    args.dryrun =>
        /\ fs = FS0
        /\ \A i \in 1..NAttempts :
              /\ ~attempts[i].called
              /\ attempts[i].ok
              /\ (i > 1 /\ attempts[i-1].file = attempts[i].file)
                    => /\ attempts[i].base = attempts[i-1].new
                       /\ attempts[i].src = attempts[i-1].dst
        /\ (NAttempts > 0 /\ attempts[NAttempts].file = cur)
              => /\ fname = attempts[NAttempts].new
                 /\ full_name = attempts[NAttempts].dst

\* C4's case: a dry run over a directory is over, with several steps on
\* more than one file, towards names that are not on the filesystem
C4_Witness ==
    /\ args.dryrun
    /\ Done
    /\ DirTarget
    /\ NAttempts >= 4
    /\ fname # Base0(cur)
    /\ \E i \in 1..NAttempts : attempts[i].dst \notin FS0.files
    /\ \E i, j \in 1..NAttempts : attempts[i].file # attempts[j].file

\* C5: for a directory target the operation sequence is applied exactly once
\* to every regular file under the root: at the end the operations attempted
\* on each file are the requested ones, once.
C5_EachFileOnce ==
    (Done /\ DirTarget) =>
        \A f \in {p \in FS0.files : Under(p, args.filename)} : OpsOn(f) = ReqOps

\* C6: for a directory target every filesystem rename has a regular file as
\* its source, never the root or a subdirectory.
C6_OnlyFilesRenamed ==
    DirTarget => \A i \in 1..NAttempts :
                    attempts[i].called => attempts[i].kind = "file"

\* C7: the "renaming" lines of a dry run equal those of the non-dry run of
\* the same command line on the same filesystem.
C7_DryRunLines ==
    (Done /\ ~args.dryrun) => Renamings(out) = Renamings(dry.out)

\* C8 as a function: underscores become separators, the name is lower-cased,
\* the words are the maximal runs of alphanumeric characters, each word gets
\* its first character upper-cased and the rest lower-cased, and the words
\* are concatenated
IsAlnum(c) == IsCased(c) \/ c \in Digits
Separated(s) == [i \in 1..Len(s) |-> IF s[i] = "_" THEN " " ELSE ToLower(s[i])]
RECURSIVE CapitalizedFrom(_, _)
CapitalizedFrom(t, i) ==
    IF i > Len(t) THEN <<>>
    ELSE IF ~IsAlnum(t[i]) THEN CapitalizedFrom(t, i + 1)
         ELSE <<IF i = 1 \/ ~IsAlnum(t[i-1]) THEN ToUpper(t[i]) ELSE ToLower(t[i])>>
                  \o CapitalizedFrom(t, i + 1)
CapitalizedWords(s) == CapitalizedFrom(Separated(s), 1)

\* the three examples of the specification, which the method meets
CamelExamples ==
    /\ CamelCaseName(<<>>) = <<>>
    /\ CamelCaseName(<<"m","y","_","f","i","l","e"," ","n","a","m","e">>)
          = <<"M","y","F","i","l","e","N","a","m","e">>
    /\ CamelCaseName(<<"a","l","r","e","a","d","y","-","C","a","m","e","l">>)
          = <<"A","l","r","e","a","d","y","C","a","m","e","l">>

\* C8: camel_case hands _rename the concatenation of the words of the base
\* name, each with its first character upper-cased and all its other
\* characters lower-cased.
C8_CamelCase ==
    \A i \in 1..NAttempts :
        attempts[i].op = 6 => attempts[i].new = CapitalizedWords(attempts[i].base)

\* C9: for a plain-file target the number of rename attempts is the number
\* of requested operations; with only a prefix P the final base name is P
\* followed by the original base name, with only a postfix Q the original
\* base name followed by Q.
C9_EachOperationOnce ==
    (Done /\ ~DirTarget) =>
        /\ NAttempts = Len(ReqOps)
        /\ (ReqOps = <<2>> /\ \A i \in 1..NAttempts : attempts[i].ok)
              => fname = args.prefix \o Base0(args.filename)
        /\ (ReqOps = <<3>> /\ \A i \in 1..NAttempts : attempts[i].ok)
              => fname = Base0(args.filename) \o args.postfix

\* C10: a successful rename keeps the file in its directory: source and
\* destination have the same directory part.
C10_SameDirectory ==
    \A i \in 1..NAttempts :
        (attempts[i].called /\ attempts[i].ok)
            => DirName(attempts[i].dst) = DirName(attempts[i].src)

====
